---------------------------- MODULE Spec2Model ----------------------------
(* Model of the okta-idx-golang client: the process-wide client pointer,  *)
(* Interact / Introspect, Authenticate, ChangePassword and the            *)
(* password-reset flow (reset_password.go).                               *)
(*                                                                        *)
(* A Go pointer is modelled as a sequence of length at most one: <<>> is  *)
(* nil and <<v>> points at v.  The result of a network call is modelled   *)
(* the same way: <<>> is a failed call (transport error or non-200        *)
(* response), <<doc>> a decoded response document.                        *)
EXTENDS Integers, Sequences, FiniteSets, TLC

VARIABLES
    idx,        \* idx.go:41  the process-wide last constructed client (0 = nil)
    clients,    \* how many clients NewClient has returned: clients 1..clients
    flow,       \* the ResetPasswordResponse the caller holds (<<>> = none yet)
    starter,    \* the client whose InitPasswordReset created `flow` (0 = none)
    calls,      \* transport spy: the network calls issued by the last operation
    ret,        \* what the last operation returned to the caller
    setup       \* what the last operation's setupNextSteps call saw and left

vars == <<idx, clients, flow, starter, calls, ret, setup>>

--------------------------------------------------------------------------
(* Bounds of the model *)

MaxClient == 2      \* clients NewClient may construct, each with its own configuration
MaxSession == 2     \* interactions: the verifier drawn and the handle issued
MaxKey == 2         \* question keys the server may offer

Sessions == 1..MaxSession
QuestionKeys == 1..MaxKey

--------------------------------------------------------------------------
(* reset_password.go:240-248 *)

ResetPasswordStepEmailVerification == 1
ResetPasswordStepEmailConfirmation == 2
ResetPasswordStepAnswerSecurityQuestion == 3
ResetPasswordStepNewPassword == 4
ResetPasswordStepCancel == 5
ResetPasswordStepSkip == 6
ResetPasswordStepSuccess == 7

(* idx.go:241-245; the zero value of a Go string is "" *)
AuthStatusSuccess == "SUCCESS"
AuthStatusUnhandled == "UNHANDLED_RESPONSE"
EmptyString == ""

--------------------------------------------------------------------------
(* The remediation document.  A form field carries a name, a label, a     *)
(* value and an optional nested form (a sequence of leaf fields; <<>> is  *)
(* a nil or empty form).                                                  *)

Leaf(name, label, value) == [Name |-> name, Label |-> label, Value |-> value]

Field(name, form) == [Name |-> name, Form |-> form]

Option(name, formValues) == [Name |-> name, FormValues |-> formValues]

\* "identify" of an identifier-first provider: the identifier alone
OptIdentify == Option("identify", << Field("identifier", <<>>) >>)

\* "identify" of a provider that takes identifier and credentials at once
OptIdentifyCredentials ==
    Option("identify",
           << Field("identifier", <<>>),
              Field("credentials", << Leaf("passcode", "Password", 0) >>) >>)

\* authenticator selection offering Email (machine identifier 1) and Password
OptSelectEmail ==
    Option("select-authenticator-authenticate",
           << Field("authenticator",
                    << Leaf("id", "Password", 2), Leaf("id", "Email", 1) >>) >>)

\* authenticator selection offering Password only
OptSelectPassword ==
    Option("select-authenticator-authenticate",
           << Field("authenticator", << Leaf("id", "Password", 2) >>) >>)

OptSkip == Option("skip", << Field("stateHandle", <<>>) >>)

\* challenge asking for a passcode (e-mail code, password)
OptChallengePasscode ==
    Option("challenge-authenticator",
           << Field("credentials", << Leaf("passcode", "Enter code", 0) >>),
              Field("stateHandle", <<>>) >>)

\* challenge asking a security question whose key is k
OptChallengeQuestion(k) ==
    Option("challenge-authenticator",
           << Field("stateHandle", <<>>),
              Field("credentials",
                    << Leaf("answer", "Answer", 0),
                       Leaf("questionKey", "What is your pet's name?", k) >>) >>)

OptResetNewPassword ==
    Option("reset-authenticator",
           << Field("stateHandle", <<>>),
              Field("credentials", << Leaf("passcode", "New password", 0) >>) >>)

\* reset-authenticator without a field labelled "New password"
OptResetOther ==
    Option("reset-authenticator",
           << Field("credentials", << Leaf("passcode", "Passcode", 0) >>) >>)

Document(success, cancel, messages, enrollment, remediation) ==
    [SuccessResponse |-> success,
     CancelResponse |-> cancel,
     Messages |-> messages,
     CurrentAuthenticatorEnrollment |-> enrollment,
     Remediation |-> remediation]

AllProbed == {OptSelectEmail, OptSkip, OptChallengeQuestion(1), OptResetNewPassword}

\* option sets in which no probe of setupNextSteps matches: none, options
\* of the probed names without the probed field, a passcode challenge alone
UnprobedSets ==
    { {}, {OptSelectPassword, OptChallengePasscode, OptResetOther},
      {OptChallengePasscode} }

\* option sets in which a probe matches: each probed option alone, and all
ProbedSets ==
    { {OptSelectEmail}, {OptSkip}, {OptResetNewPassword}, AllProbed }
    \cup { {OptChallengeQuestion(k)} : k \in QuestionKeys }

\* the documents a remediation submission may return to setupNextSteps
StepDocs ==
    { Document(FALSE, FALSE, m, FALSE, r) : m \in BOOLEAN, r \in UnprobedSets }
    \cup { Document(FALSE, TRUE, FALSE, FALSE, r) : r \in UnprobedSets }
    \cup { Document(FALSE, c, FALSE, FALSE, r) : c \in BOOLEAN, r \in ProbedSets }
    \cup { Document(TRUE, c, c, FALSE, r) : c \in BOOLEAN, r \in {{}, AllProbed} }

\* documents for the calls of which one option, the enrollment or the cancel
\* marker is read: one that has none of them, with and without messages, and
\* one that has them all
EmptyDoc == Document(FALSE, FALSE, FALSE, FALSE, {})
MessageDoc == Document(FALSE, FALSE, TRUE, FALSE, {})
RichDoc ==
    Document(FALSE, TRUE, FALSE, TRUE,
             {OptIdentify, OptSelectEmail, OptChallengePasscode, OptResetNewPassword})
PasswordOnlyDoc == Document(FALSE, TRUE, FALSE, TRUE, {OptSelectPassword})
CredentialsDoc == Document(FALSE, FALSE, FALSE, FALSE, {OptIdentifyCredentials})

Failed == <<>>
ProbeResults == {Failed, <<EmptyDoc>>, <<MessageDoc>>, <<RichDoc>>}
StepResults == {Failed} \cup { <<d>> : d \in StepDocs }

\* the fates of the token exchange that a document can tell apart
Exchanges(res) ==
    IF res # Failed /\ res[1].SuccessResponse THEN BOOLEAN ELSE {TRUE}

\* the responses to a transition's introspect call and submission: every
\* introspect response with a failing submission, and every submission
\* response after an introspect response that has every option
TransitionInputs ==
    { <<i, Failed, TRUE>> : i \in ProbeResults }
    \cup UNION { { << <<RichDoc>>, s, e >> : e \in Exchanges(s) } : s \in StepResults }

--------------------------------------------------------------------------
(* Configuration, session context and the transport spy *)

\* idx.go:80-82  the client secret of client c's configuration
ClientSecret(c) == 10 + c

\* idx.go:139-162  the PKCE challenge base64url(SHA-256(codeVerifier))
CodeChallenge(v) == (7 * v + 3) % 11

\* idx.go:48-52  the context of interaction n: the verifier crand.Read drew
\* for it and the handle the server issued for it
Context(n) == [codeVerifier |-> n, interactionHandle |-> 20 + n]

\* one recorded network call; fields a call does not carry are 0.  arg is
\* the authenticator id or the question key a remediation submission carries
Call(kind, client, handle, verifier, secret, challenge, arg) ==
    [kind |-> kind, client |-> client, handle |-> handle, verifier |-> verifier,
     secret |-> secret, challenge |-> challenge, arg |-> arg]

InteractCall(c, v) == Call("interact", c, 0, 0, 0, CodeChallenge(v), 0)
IntrospectCall(c, ictx) == Call("introspect", c, ictx.interactionHandle, 0, 0, 0, 0)
ProceedCall(name, arg) == Call(name, 0, 0, 0, 0, 0, arg)
ExchangeCall(secret, verifier) == Call("token", 0, 0, verifier, secret, 0, 0)

\* the opaque token bundle a token exchange returns
TokenValue == [accessToken |-> "at"]

--------------------------------------------------------------------------
(* Remediation navigator *)

\* the option of that name: <<>> when the document has none
remediationOption(resp, name) ==
    IF \E o \in resp.Remediation : o.Name = name
    THEN << CHOOSE o \in resp.Remediation : o.Name = name >>
    ELSE <<>>

\* the positions (i, j) of the nested fields of ro whose attribute attr
\* ("Name" or "Label") is want, and the first of them in scan order (outer
\* index, then inner index)
NestedHits(ro, attr, want) ==
    { p \in UNION { {<<i, j>> : j \in DOMAIN ro.FormValues[i].Form} :
                     i \in DOMAIN ro.FormValues } :
        ro.FormValues[p[1]].Form[p[2]][attr] = want }

FirstHit(hits) ==
    CHOOSE p \in hits :
        \A q \in hits : p[1] < q[1] \/ (p[1] = q[1] /\ p[2] <= q[2])

\* the named option and the machine identifier of its authenticator with
\* that label: <<>> when the option or the authenticator is absent
authenticatorOption(resp, optionName, label) ==
    LET ro == remediationOption(resp, optionName)
    IN  IF ro = <<>> THEN <<>>
        ELSE LET hits == NestedHits(ro[1], "Label", label)
             IN  IF hits = {} THEN <<>>
                 ELSE LET p == FirstHit(hits)
                      IN  << [ro |-> ro[1],
                              authID |-> ro[1].FormValues[p[1]].Form[p[2]].Value] >>

LoginSuccess(resp) == resp.SuccessResponse

--------------------------------------------------------------------------
(* The flow object, reset_password.go:10-15 *)

Response(ictx, token, steps, sq) ==
    [idxContext |-> ictx, token |-> token, availableSteps |-> steps, sq |-> sq]

SecurityQuestionValue(leaf) == [QuestionKey |-> leaf.Value, Question |-> leaf.Label]

HasStep(r, s) == \E i \in DOMAIN r.availableSteps : r.availableSteps[i] = s

\* what a handler hands back: err is "nil", "error" or "panic"; at names the
\* return statement taken
Outcome(err, at, r, net, seen) ==
    [err |-> err, at |-> at, r |-> r, calls |-> net, setup |-> seen]

\* the record of one setupNextSteps call: the document it was given and the
\* step set, question and token it left on the flow when it returned
Seen(resp, r, err) ==
    << [doc |-> resp, err |-> err, steps |-> r.availableSteps,
        sq |-> r.sq, token |-> r.token] >>

\* reset_password.go:276-293  the question probe
questionProbe(resp) ==
    LET ro == remediationOption(resp, "challenge-authenticator")
    IN  IF ro = <<>> THEN <<>>
        ELSE LET hits == NestedHits(ro[1], "Name", "questionKey")
             IN  IF hits = {} THEN <<>>
                 ELSE LET p == FirstHit(hits)
                      IN  << ro[1].FormValues[p[1]].Form[p[2]] >>

\* reset_password.go:294-307  the new-password probe
newPasswordProbe(resp) ==
    LET ro == remediationOption(resp, "reset-authenticator")
    IN  ro # <<>> /\ NestedHits(ro[1], "Label", "New password") # {}

\* collectSteps with the probes chained by else: the first match wins
collectStepsFirstMatch(resp) ==
    IF resp.CancelResponse THEN <<ResetPasswordStepCancel>>
    ELSE IF authenticatorOption(resp, "select-authenticator-authenticate", "Email") # <<>>
    THEN <<ResetPasswordStepEmailVerification>>
    ELSE IF remediationOption(resp, "skip") # <<>>
    THEN <<ResetPasswordStepSkip>>
    ELSE IF questionProbe(resp) # <<>>
    THEN <<ResetPasswordStepAnswerSecurityQuestion>>
    ELSE IF newPasswordProbe(resp)
    THEN <<ResetPasswordStepNewPassword>>
    ELSE <<>>

\* reset_password.go:264-307  the steps collected from a document, in order
collectSteps(resp) ==
    (IF resp.CancelResponse THEN <<ResetPasswordStepCancel>> ELSE <<>>)
    \o (IF authenticatorOption(resp, "select-authenticator-authenticate", "Email") # <<>>
        THEN <<ResetPasswordStepEmailVerification>> ELSE <<>>)
    \o (IF remediationOption(resp, "skip") # <<>>
        THEN <<ResetPasswordStepSkip>> ELSE <<>>)
    \o (IF questionProbe(resp) # <<>>
        THEN <<ResetPasswordStepAnswerSecurityQuestion>> ELSE <<>>)
    \o (IF newPasswordProbe(resp)
        THEN <<ResetPasswordStepNewPassword>> ELSE <<>>)

\* setupNextSteps without the early return of line 262: the probes still run
\* on a success document and their steps follow Success
setupNextStepsKeepsProbing(r, resp, exchange) ==
    LET net == IF LoginSuccess(resp)
               THEN << ExchangeCall(ClientSecret(idx), r.idxContext.codeVerifier) >>
               ELSE <<>>
        found == (IF LoginSuccess(resp) THEN <<ResetPasswordStepSuccess>> ELSE <<>>)
                 \o collectSteps(resp)
        q == questionProbe(resp)
        r1 == IF q = <<>> THEN r
              ELSE [r EXCEPT !.sq = <<SecurityQuestionValue(q[1])>>]
    IN  IF LoginSuccess(resp) /\ ~exchange
        THEN Outcome("error", "exchange", r, net, Seen(resp, r, "error"))
        ELSE IF Len(found) = 0
        THEN Outcome(IF resp.Messages THEN "error" ELSE "panic", "deadend",
                     r1, net, Seen(resp, r1, IF resp.Messages THEN "error" ELSE "panic"))
        ELSE LET r2 == [r1 EXCEPT !.availableSteps = found,
                                  !.token = IF LoginSuccess(resp)
                                            THEN <<TokenValue>> ELSE @]
             IN  Outcome("nil", "done", r2, net, Seen(resp, r2, "nil"))

\* the part of setupNextSteps for a document without a success marker, with
\* the step list started from base instead of an empty list, and the list
\* assigned before (early) or after the dead-end return of line 308
setupNextStepsVariant(r, resp, base, early) ==
    LET steps == base \o collectSteps(resp)
        q == questionProbe(resp)
        r1 == IF q = <<>> THEN r
              ELSE [r EXCEPT !.sq = <<SecurityQuestionValue(q[1])>>]
        r2 == [r1 EXCEPT !.availableSteps = steps]
        re == IF early THEN r2 ELSE r1
    IN  IF Len(collectSteps(resp)) = 0
        THEN IF resp.Messages
             THEN Outcome("error", "deadend", re, <<>>, Seen(resp, re, "error"))
             ELSE Outcome("panic", "deadend", re, <<>>, Seen(resp, re, "panic"))
        ELSE Outcome("nil", "done", r2, <<>>, Seen(resp, r2, "nil"))

\* the part of setupNextSteps for a document with a success marker
setupNextStepsSuccess(r, resp, exchange) ==
    LET net == << ExchangeCall(ClientSecret(idx), r.idxContext.codeVerifier) >>
    IN  IF ~exchange
        THEN Outcome("error", "exchange", r, net, Seen(resp, r, "error"))
        ELSE LET r2 == [r EXCEPT !.token = <<TokenValue>>,
                                 !.availableSteps = <<ResetPasswordStepSuccess>>]
             IN  Outcome("nil", "done", r2, net, Seen(resp, r2, "nil"))

\* setupNextSteps that keeps EmailConfirmation when the flow offered it
setupNextStepsKeepsConfirmation(r, resp, exchange) ==
    IF LoginSuccess(resp) THEN setupNextStepsSuccess(r, resp, exchange)
    ELSE setupNextStepsVariant(r, resp,
             IF HasStep(r, ResetPasswordStepEmailConfirmation)
             THEN <<ResetPasswordStepEmailConfirmation>> ELSE <<>>, FALSE)

\* setupNextSteps that appends to the flow's step list instead of a new one
setupNextStepsAppends(r, resp, exchange) ==
    IF LoginSuccess(resp) THEN setupNextStepsSuccess(r, resp, exchange)
    ELSE setupNextStepsVariant(r, resp, r.availableSteps, FALSE)

\* setupNextSteps that assigns the (empty) step list before the dead-end
\* return
setupNextStepsAssignsFirst(r, resp, exchange) ==
    IF LoginSuccess(resp) THEN setupNextStepsSuccess(r, resp, exchange)
    ELSE setupNextStepsVariant(r, resp, <<>>, TRUE)

\* reset_password.go:250-313.  exchange: whether the token exchange succeeds.
\* The exchange form carries the secret of the process-wide client idx.
setupNextSteps(r, resp, exchange) ==
    IF LoginSuccess(resp)
    THEN LET net == << ExchangeCall(ClientSecret(idx), r.idxContext.codeVerifier) >>
         IN  IF ~exchange
             THEN Outcome("error", "exchange", r, net, Seen(resp, r, "error"))
             ELSE LET r2 == [r EXCEPT !.token = <<TokenValue>>,
                                      !.availableSteps = <<ResetPasswordStepSuccess>>]
                  IN  Outcome("nil", "done", r2, net, Seen(resp, r2, "nil"))
    ELSE LET steps == collectSteps(resp)
             q == questionProbe(resp)
             r1 == IF q = <<>> THEN r
                   ELSE [r EXCEPT !.sq = <<SecurityQuestionValue(q[1])>>]
         IN  IF Len(steps) = 0
             THEN \* line 309 reads resp.Messages.Values: Messages is a pointer
                  IF resp.Messages
                  THEN Outcome("error", "deadend", r1, <<>>, Seen(resp, r1, "error"))
                  ELSE Outcome("panic", "deadend", r1, <<>>, Seen(resp, r1, "panic"))
             ELSE LET r2 == [r1 EXCEPT !.availableSteps = steps]
                  IN  Outcome("nil", "done", r2, <<>>, Seen(resp, r2, "nil"))

--------------------------------------------------------------------------
(* Interact and Introspect, idx.go:138-238 *)

Result(err, value, net) == [err |-> err, value |-> value, calls |-> net]

\* idx.go:138-197.  rnd: crand.Read succeeds; n: the interaction drawn;
\* http: the interact request succeeds
Interact(c, rnd, n, http) ==
    IF ~rnd THEN Result("error", <<>>, <<>>)
    ELSE LET net == << InteractCall(c, Context(n).codeVerifier) >>
         IN  IF ~http THEN Result("error", <<>>, net)
             ELSE Result("nil", << Context(n) >>, net)

\* idx.go:199-238.  ictx is a pointer; a nil context is bootstrapped by an
\* implicit Interact (inputs rnd, n, http).  doc: the introspect response
Introspect(c, ictx, rnd, n, http, doc) ==
    LET boot == IF ictx = <<>> THEN Interact(c, rnd, n, http)
                ELSE Result("nil", ictx, <<>>)
    IN  IF boot.err # "nil" THEN Result("error", <<>>, boot.calls)
        ELSE LET net == boot.calls \o << IntrospectCall(c, boot.value[1]) >>
             IN  IF doc = <<>> THEN Result("error", <<>>, net)
                 ELSE Result("nil", doc, net)

\* Introspect handed a nil context: it bootstraps a session of its own
IntrospectWithoutContext(c, ictx, doc) == Introspect(c, <<>>, TRUE, 1, TRUE, doc)

\* Introspect on a context that is known to be present
IntrospectWith(c, ictx, doc) == Introspect(c, << ictx >>, TRUE, 1, TRUE, doc)

--------------------------------------------------------------------------
(* The password-reset transitions, reset_password.go:60-182 and 315-338.  *)
(* Each takes the flow object r and the responses the network gives to    *)
(* the calls it issues, in order; exchange is the token exchange's fate.  *)

Fail(at, r, net) == Outcome("error", at, r, net, <<>>)

\* the guard's rejection, lines 61-63, 100-102, 107-109, 137-139, 166-168
Rejected(r) == Fail("guard", r, <<>>)

\* lines 91-96, 129-133, 157-161, 177-181, 333-337: recompute the steps and
\* hand the flow back
Recompute(r, net, resp, exchange) ==
    LET o == setupNextSteps(r, resp, exchange)
    IN  Outcome(o.err, o.at, o.r, net \o o.calls, o.setup)

\* reset_password.go:60-97
VerifyEmail(r, introspect, recover, submit, exchange) ==
    IF ~HasStep(r, ResetPasswordStepEmailVerification) THEN Rejected(r)
    ELSE
    LET i == IntrospectWith(idx, r.idxContext, introspect)
    IN  IF i.err # "nil" THEN Fail("introspect", r, i.calls)
        ELSE IF ~i.value[1].CurrentAuthenticatorEnrollment
        THEN Fail("enrollment", r, i.calls)
        ELSE
        LET net2 == i.calls \o << ProceedCall("recover", 0) >>
        IN  IF recover = <<>> THEN Fail("recover", r, net2)
            ELSE
            LET ao == authenticatorOption(recover[1],
                          "select-authenticator-authenticate", "Email")
            IN  IF ao = <<>> THEN Fail("option", r, net2)
                ELSE
                LET net3 == net2 \o << ProceedCall(ao[1].ro.Name, ao[1].authID) >>
                IN  IF submit = <<>> THEN Fail("submit", r, net3)
                    ELSE
                    LET o == Recompute(r, net3, submit[1], exchange)
                    IN  IF o.err # "nil" THEN o
                        ELSE [o EXCEPT !.r.availableSteps =
                                 Append(@, ResetPasswordStepEmailConfirmation)]

\* reset_password.go:315-338
confirmWithCode(r, introspect, submit, exchange) ==
    LET i == IntrospectWith(idx, r.idxContext, introspect)
    IN  IF i.err # "nil" THEN Fail("introspect", r, i.calls)
        ELSE
        LET ro == remediationOption(i.value[1], "challenge-authenticator")
        IN  IF ro = <<>> THEN Fail("option", r, i.calls)
            ELSE
            LET net2 == i.calls \o << ProceedCall(ro[1].Name, 0) >>
            IN  IF submit = <<>> THEN Fail("submit", r, net2)
                ELSE Recompute(r, net2, submit[1], exchange)

\* ConfirmEmail without the guard of lines 100-102
ConfirmEmailUnguarded(r, introspect, submit, exchange) ==
    confirmWithCode(r, introspect, submit, exchange)

\* reset_password.go:99-104
ConfirmEmail(r, introspect, submit, exchange) ==
    IF ~HasStep(r, ResetPasswordStepEmailConfirmation) THEN Rejected(r)
    ELSE confirmWithCode(r, introspect, submit, exchange)

\* reset_password.go:106-134.  Line 123 reads r.sq.QuestionKey: a nil r.sq
\* panics there.  The deferred r.sq = nil is registered at line 128, after
\* the submission has succeeded, and runs on any later return or panic.
AnswerSecurityQuestion(r, introspect, submit, exchange) ==
    IF ~HasStep(r, ResetPasswordStepAnswerSecurityQuestion) THEN Rejected(r)
    ELSE
    LET i == IntrospectWith(idx, r.idxContext, introspect)
    IN  IF i.err # "nil" THEN Fail("introspect", r, i.calls)
        ELSE
        LET ro == remediationOption(i.value[1], "challenge-authenticator")
        IN  IF ro = <<>> THEN Fail("option", r, i.calls)
            ELSE IF r.sq = <<>> THEN Outcome("panic", "question", r, i.calls, <<>>)
            ELSE
            LET net2 == i.calls \o << ProceedCall(ro[1].Name, r.sq[1].QuestionKey) >>
            IN  IF submit = <<>> THEN Fail("submit", r, net2)
                ELSE
                LET o == Recompute(r, net2, submit[1], exchange)
                IN  [o EXCEPT !.r.sq = <<>>]

\* reset_password.go:136-162
SetNewPassword(r, introspect, submit, exchange) ==
    IF ~HasStep(r, ResetPasswordStepNewPassword) THEN Rejected(r)
    ELSE
    LET i == IntrospectWith(idx, r.idxContext, introspect)
    IN  IF i.err # "nil" THEN Fail("introspect", r, i.calls)
        ELSE
        LET ro == remediationOption(i.value[1], "reset-authenticator")
        IN  IF ro = <<>> THEN Fail("option", r, i.calls)
            ELSE
            LET net2 == i.calls \o << ProceedCall(ro[1].Name, 0) >>
            IN  IF submit = <<>> THEN Fail("submit", r, net2)
                ELSE Recompute(r, net2, submit[1], exchange)

\* reset_password.go:164-182.  The document's cancel transition is refused
\* without a network call when the document has no cancel marker.
Cancel(r, introspect, submit, exchange) ==
    IF ~HasStep(r, ResetPasswordStepCancel) THEN Rejected(r)
    ELSE
    LET i == IntrospectWith(idx, r.idxContext, introspect)
    IN  IF i.err # "nil" THEN Fail("introspect", r, i.calls)
        ELSE IF ~i.value[1].CancelResponse THEN Fail("option", r, i.calls)
        ELSE
        LET net2 == i.calls \o << ProceedCall("cancel", 0) >>
        IN  IF submit = <<>> THEN Fail("submit", r, net2)
            ELSE Recompute(r, net2, submit[1], exchange)

--------------------------------------------------------------------------
(* InitPasswordReset, reset_password.go:22-58 *)

\* InitPasswordReset that submits "recover" before it looks for the
\* enrollment in the identify response
InitPasswordResetRecoversFirst(c, rnd, n, http, introspect, identify, recover, exchange) ==
    LET rpr == Response(Context(n), <<>>, <<>>, <<>>)
        x == Interact(c, rnd, n, http)
    IN  IF x.err # "nil" THEN Fail("interact", rpr, x.calls)
        ELSE
        LET i == Introspect(c, x.value, rnd, n, http, introspect)
            net1 == x.calls \o i.calls
        IN  IF i.err # "nil" THEN Fail("introspect", rpr, net1)
            ELSE
            LET ro == remediationOption(i.value[1], "identify")
            IN  IF ro = <<>> THEN Fail("option", rpr, net1)
                ELSE
                LET net2 == net1 \o << ProceedCall(ro[1].Name, 0) >>
                    net3 == net2 \o << ProceedCall("recover", 0) >>
                IN  IF identify = <<>> THEN Fail("submit", rpr, net2)
                    ELSE IF ~identify[1].CurrentAuthenticatorEnrollment
                    THEN Fail("enrollment", rpr, net3)
                    ELSE IF recover = <<>> THEN Fail("recover", rpr, net3)
                    ELSE Recompute(rpr, net3, recover[1], exchange)

InitPasswordReset(c, rnd, n, http, introspect, identify, recover, exchange) ==
    LET rpr == Response(Context(n), <<>>, <<>>, <<>>)
        x == Interact(c, rnd, n, http)
    IN  IF x.err # "nil" THEN Fail("interact", rpr, x.calls)
        ELSE
        LET i == Introspect(c, x.value, rnd, n, http, introspect)
            net1 == x.calls \o i.calls
        IN  IF i.err # "nil" THEN Fail("introspect", rpr, net1)
            ELSE
            LET ro == remediationOption(i.value[1], "identify")
            IN  IF ro = <<>> THEN Fail("option", rpr, net1)
                ELSE
                LET net2 == net1 \o << ProceedCall(ro[1].Name, 0) >>
                IN  IF identify = <<>> THEN Fail("submit", rpr, net2)
                    ELSE IF ~identify[1].CurrentAuthenticatorEnrollment
                    THEN Fail("enrollment", rpr, net2)
                    ELSE
                    LET net3 == net2 \o << ProceedCall("recover", 0) >>
                    IN  IF recover = <<>> THEN Fail("recover", rpr, net3)
                        ELSE Recompute(rpr, net3, recover[1], exchange)

--------------------------------------------------------------------------
(* Authenticate and ChangePassword, idx.go:256-349 *)

\* idx.go:256-260; a nil *AuthenticationResponse is <<>>
AuthenticationResponse(token, status) ==
    << [token |-> token, authenticationStatus |-> status] >>

\* what Authenticate and ChangePassword hand back; seen records the document
\* handleRemediation was given, if it was reached
Returned(err, at, value, net, seen) ==
    [err |-> err, at |-> at, value |-> value, calls |-> net, setup |-> seen]

\* whether the "identify" option asks for the identifier alone
IsIdentityFirst(ro) ==
    ~\E k \in DOMAIN ro.FormValues : ro.FormValues[k].Name = "credentials"

\* idx.go:298-320
handleRemediation(c, idxContext, response, exchange, net) ==
    LET none == Response(idxContext, <<>>, <<>>, <<>>)
    IN  IF LoginSuccess(response)
        THEN LET net2 == net \o << ExchangeCall(ClientSecret(c), idxContext.codeVerifier) >>
             IN  IF ~exchange
                 THEN Returned("error", "exchange", <<>>, net2,
                               Seen(response, none, "error"))
                 ELSE Returned("nil", "success",
                               AuthenticationResponse(<<TokenValue>>, AuthStatusSuccess),
                               net2, Seen(response, none, "nil"))
        ELSE Returned("nil", "unhandled", AuthenticationResponse(<<>>, EmptyString),
                      net, Seen(response, none, "nil"))

\* idx.go:262-296 with handleIdentityFirst, idx.go:327-349
Authenticate(c, rnd, n, http, introspect, identify, challenge, exchange) ==
    LET x == Interact(c, rnd, n, http)
    IN  IF x.err # "nil" THEN Returned("error", "interact", <<>>, x.calls, <<>>)
        ELSE
        LET i == Introspect(c, x.value, rnd, n, http, introspect)
            net1 == x.calls \o i.calls
        IN  IF i.err # "nil" THEN Returned("error", "introspect", <<>>, net1, <<>>)
            ELSE
            LET ro == remediationOption(i.value[1], "identify")
            IN  IF ro = <<>> THEN Returned("error", "option", <<>>, net1, <<>>)
                ELSE IF ~IsIdentityFirst(ro[1])
                THEN Returned("nil", "single-step", <<>>, net1, <<>>)
                ELSE
                LET net2 == net1 \o << ProceedCall(ro[1].Name, 0) >>
                IN  IF identify = <<>>
                    THEN Returned("error", "submit", <<>>, net2, <<>>)
                    ELSE
                    LET ch == remediationOption(identify[1], "challenge-authenticator")
                    IN  IF ch = <<>>
                        THEN Returned("error", "challenge", <<>>, net2, <<>>)
                        ELSE
                        LET net3 == net2 \o << ProceedCall(ch[1].Name, 0) >>
                        IN  IF challenge = <<>>
                            THEN Returned("error", "passcode", <<>>, net3, <<>>)
                            ELSE handleRemediation(c, x.value[1], challenge[1],
                                                   exchange, net3)

\* idx.go:322-325
ChangePassword(c) == Returned("nil", "stub", <<>>, <<>>, <<>>)

--------------------------------------------------------------------------
(* Inputs of the operations *)

\* crand.Read fails; the interact request fails; the later calls' responses
InteractFailures ==
    { <<FALSE, 1, TRUE>> } \cup { <<TRUE, n, FALSE>> : n \in Sessions }

InitInputs ==
    { <<x[1], x[2], x[3], Failed, Failed, Failed, TRUE>> : x \in InteractFailures }
    \cup { <<TRUE, n, TRUE, i, Failed, Failed, TRUE>> :
             n \in Sessions, i \in ProbeResults }
    \cup { <<TRUE, n, TRUE, <<RichDoc>>, d, Failed, TRUE>> :
             n \in Sessions, d \in ProbeResults }
    \cup UNION { { <<TRUE, n, TRUE, <<RichDoc>>, <<RichDoc>>, s, e>> :
                     n \in Sessions, e \in Exchanges(s) } : s \in StepResults }

VerifyEmailInputs ==
    { <<i, Failed, Failed, TRUE>> : i \in ProbeResults }
    \cup { << <<RichDoc>>, d, Failed, TRUE >> :
             d \in ProbeResults \cup { <<PasswordOnlyDoc>> } }
    \cup UNION { { << <<RichDoc>>, <<RichDoc>>, s, e >> : e \in Exchanges(s) } :
                 s \in StepResults }

AuthenticateInputs ==
    { <<x[1], x[2], x[3], Failed, Failed, Failed, TRUE>> : x \in InteractFailures }
    \cup { <<TRUE, n, TRUE, i, Failed, Failed, TRUE>> :
             n \in Sessions, i \in ProbeResults \cup { <<CredentialsDoc>> } }
    \cup { <<TRUE, n, TRUE, <<RichDoc>>, d, Failed, TRUE>> :
             n \in Sessions, d \in ProbeResults }
    \cup UNION { { <<TRUE, n, TRUE, <<RichDoc>>, <<RichDoc>>, s, e>> :
                     n \in Sessions, e \in Exchanges(s) } : s \in StepResults }

--------------------------------------------------------------------------
(* The state machine *)

\* what the caller got back: the operation, its error ("nil", "error" or
\* "panic"), the return statement taken, whether a non-nil value came back,
\* and for Authenticate and ChangePassword the response pointer
Ret(op, err, at, some, auth) ==
    [op |-> op, err |-> err, at |-> at, some |-> some, auth |-> auth]

Init ==
    /\ idx = 0
    /\ clients = 0
    /\ flow = <<>>
    /\ starter = 0
    /\ calls = <<>>
    /\ ret = Ret("none", "nil", "none", FALSE, <<>>)
    /\ setup = <<>>

\* NewClient that publishes the client before it validates the configuration
NewClientAssignsEarly ==
    /\ clients < MaxClient
    /\ \E valid \in BOOLEAN :
        /\ idx' = clients + 1
        /\ clients' = IF valid THEN clients + 1 ELSE clients
        /\ ret' = Ret("NewClient", IF valid THEN "nil" ELSE "error",
                      IF valid THEN "done" ELSE "config", valid, <<>>)
        /\ calls' = <<>>
        /\ setup' = <<>>
        /\ UNCHANGED <<flow, starter>>

\* idx.go:54-73.  valid: ReadConfig and Validate accept the configuration.
\* Each call builds a new Client object: the clients are numbered in the
\* order NewClient returned them
NewClient ==
    /\ clients < MaxClient
    /\ \E valid \in BOOLEAN :
        /\ idx' = IF valid THEN clients + 1 ELSE idx
        /\ clients' = IF valid THEN clients + 1 ELSE clients
        /\ ret' = Ret("NewClient", IF valid THEN "nil" ELSE "error",
                      IF valid THEN "done" ELSE "config", valid, <<>>)
        /\ calls' = <<>>
        /\ setup' = <<>>
        /\ UNCHANGED <<flow, starter>>

\* the model follows one flow object: the caller starts it, then drives it
CallInitPasswordReset ==
    /\ flow = <<>>
    /\ \E c \in 1..clients, in \in InitInputs :
        LET o == InitPasswordReset(c, in[1], in[2], in[3], in[4], in[5], in[6], in[7])
        IN  /\ flow' = IF o.err = "nil" THEN << o.r >> ELSE flow
            /\ starter' = IF o.err = "nil" THEN c ELSE starter
            /\ ret' = Ret("InitPasswordReset", o.err, o.at, o.err = "nil", <<>>)
            /\ calls' = o.calls
            /\ setup' = o.setup
            /\ UNCHANGED <<idx, clients>>

\* a transition mutates the flow object in place and returns it or nil
Transition(op, o) ==
    /\ flow' = << o.r >>
    /\ ret' = Ret(op, o.err, o.at, o.err = "nil", <<>>)
    /\ calls' = o.calls
    /\ setup' = o.setup
    /\ UNCHANGED <<idx, clients, starter>>

\* a call whose step is not available returns before it reads any response:
\* one input stands for them all
Offered(step, inputs) ==
    IF HasStep(flow[1], step) THEN inputs ELSE { CHOOSE in \in inputs : TRUE }

CallVerifyEmail ==
    /\ flow # <<>>
    /\ \E in \in Offered(ResetPasswordStepEmailVerification, VerifyEmailInputs) :
           Transition("VerifyEmail", VerifyEmail(flow[1], in[1], in[2], in[3], in[4]))

CallConfirmEmail ==
    /\ flow # <<>>
    /\ \E in \in Offered(ResetPasswordStepEmailConfirmation, TransitionInputs) :
           Transition("ConfirmEmail", ConfirmEmail(flow[1], in[1], in[2], in[3]))

CallAnswerSecurityQuestion ==
    /\ flow # <<>>
    /\ \E in \in Offered(ResetPasswordStepAnswerSecurityQuestion, TransitionInputs) :
           Transition("AnswerSecurityQuestion",
                      AnswerSecurityQuestion(flow[1], in[1], in[2], in[3]))

CallSetNewPassword ==
    /\ flow # <<>>
    /\ \E in \in Offered(ResetPasswordStepNewPassword, TransitionInputs) :
           Transition("SetNewPassword", SetNewPassword(flow[1], in[1], in[2], in[3]))

CallCancel ==
    /\ flow # <<>>
    /\ \E in \in Offered(ResetPasswordStepCancel, TransitionInputs) :
           Transition("Cancel", Cancel(flow[1], in[1], in[2], in[3]))

CallAuthenticate ==
    \E c \in 1..clients, in \in AuthenticateInputs :
        LET o == Authenticate(c, in[1], in[2], in[3], in[4], in[5], in[6], in[7])
        IN  /\ ret' = Ret("Authenticate", o.err, o.at, o.value # <<>>, o.value)
            /\ calls' = o.calls
            /\ setup' = o.setup
            /\ UNCHANGED <<idx, clients, flow, starter>>

CallChangePassword ==
    \E c \in 1..clients :
        LET o == ChangePassword(c)
        IN  /\ ret' = Ret("ChangePassword", o.err, o.at, o.value # <<>>, o.value)
            /\ calls' = o.calls
            /\ setup' = <<>>
            /\ UNCHANGED <<idx, clients, flow, starter>>

Next ==
    \/ NewClient
    \/ CallInitPasswordReset
    \/ CallVerifyEmail
    \/ CallConfirmEmail
    \/ CallAnswerSecurityQuestion
    \/ CallSetNewPassword
    \/ CallCancel

Spec == Init /\ [][Next]_vars

\* the authentication flow, which shares nothing with a password-reset flow
\* but the clients
NextAuth ==
    \/ NewClient
    \/ CallAuthenticate
    \/ CallChangePassword

SpecAuth == Init /\ [][NextAuth]_vars

\* setupNextSteps on its own: every document that the probes can tell apart,
\* given to a flow in each condition a transition can leave it in

\* the options of one probed name: absent, present without the probed
\* field, present with it
SelectChoices == { {}, {OptSelectPassword}, {OptSelectEmail} }
SkipChoices == { {}, {OptSkip} }
ChallengeChoices ==
    { {}, {OptChallengePasscode} } \cup { {OptChallengeQuestion(k)} : k \in QuestionKeys }
ResetChoices == { {}, {OptResetOther}, {OptResetNewPassword} }

AllStepDocs ==
    { Document(s, c, m, FALSE, sel \cup skp \cup chl \cup rst) :
          s \in BOOLEAN, c \in BOOLEAN, m \in BOOLEAN, sel \in SelectChoices,
          skp \in SkipChoices, chl \in ChallengeChoices, rst \in ResetChoices }

\* the flow as InitPasswordReset builds it (line 50), and as transitions
\* leave it: Success comes with a token
PriorSteps ==
    { <<ResetPasswordStepEmailVerification>>,
      <<ResetPasswordStepEmailVerification, ResetPasswordStepEmailConfirmation>>,
      <<ResetPasswordStepCancel, ResetPasswordStepAnswerSecurityQuestion>>,
      <<ResetPasswordStepSkip>>,
      <<ResetPasswordStepSuccess>> }

PriorQuestions ==
    { <<>> } \cup { << [QuestionKey |-> k, Question |-> "What is your pet's name?"] >> :
                        k \in QuestionKeys }

PriorFlows ==
    { Response(Context(1), <<>>, <<>>, <<>>) }
    \cup { rr \in { Response(Context(1), t, st, q) :
                        t \in {<<>>, <<TokenValue>>}, st \in PriorSteps,
                        q \in PriorQuestions } :
               HasStep(rr, ResetPasswordStepSuccess) => rr.token # <<>> }

InitSetup ==
    /\ idx = 1
    /\ clients = 1
    /\ starter = 1
    /\ flow \in { <<rr>> : rr \in PriorFlows }
    /\ calls = <<>>
    /\ ret = Ret("none", "nil", "none", FALSE, <<>>)
    /\ setup = <<>>

Applied(op, o) ==
    /\ flow' = << o.r >>
    /\ ret' = Ret(op, o.err, o.at, FALSE, <<>>)
    /\ calls' = o.calls
    /\ setup' = o.setup
    /\ UNCHANGED <<idx, clients, starter>>

\* setupNextSteps is applied to a document
ApplySetupNextSteps ==
    /\ ret.op = "none"
    /\ \E d \in AllStepDocs : \E e \in Exchanges(<<d>>) :
           Applied("setupNextSteps", setupNextSteps(flow[1], d, e))

\* and applied to the same document once more
ApplySetupNextStepsAgain ==
    /\ ret.op = "setupNextSteps"
    /\ \E e \in Exchanges(<<setup[1].doc>>) :
           Applied("setupNextSteps again", setupNextSteps(flow[1], setup[1].doc, e))

NextSetup ==
    \/ ApplySetupNextSteps
    \/ ApplySetupNextStepsAgain

SpecSetup == InitSetup /\ [][NextSetup]_vars

--------------------------------------------------------------------------
(* Properties *)

TransitionOps ==
    {"VerifyEmail", "ConfirmEmail", "AnswerSecurityQuestion", "SetNewPassword", "Cancel"}

\* the step a transition requires, from the comments of reset_password.go:241-245
RequiredStep(op) ==
    CASE op = "VerifyEmail" -> ResetPasswordStepEmailVerification
      [] op = "ConfirmEmail" -> ResetPasswordStepEmailConfirmation
      [] op = "AnswerSecurityQuestion" -> ResetPasswordStepAnswerSecurityQuestion
      [] op = "SetNewPassword" -> ResetPasswordStepNewPassword
      [] op = "Cancel" -> ResetPasswordStepCancel

TokenCalls == { k \in DOMAIN calls : calls[k].kind = "token" }

\* C1: a transition called while its required step is not in the available
\* steps returns an error and no flow, issues no network call at all, and
\* leaves the flow object (steps, cached question, token) as it was.
C1_RejectedWithoutNetwork ==
    [][ (/\ flow # <<>>
         /\ ret'.op \in TransitionOps
         /\ ~HasStep(flow[1], RequiredStep(ret'.op)))
        => (/\ ret'.err = "error"
            /\ ~ret'.some
            /\ calls' = <<>>
            /\ flow' = flow) ]_vars

\* a transition was rejected by its guard on a flow that offers other steps
C1_Witness ==
    /\ flow # <<>>
    /\ ret.op \in TransitionOps
    /\ ret.at = "guard"
    /\ ~HasStep(flow[1], RequiredStep(ret.op))
    /\ flow[1].availableSteps # <<>>
    /\ calls = <<>>

\* C2: when a call of AnswerSecurityQuestion that passed its guard returns,
\* the cached security question is empty, however the call ended.
C2_QuestionClearedAfterAnswer ==
    (ret.op = "AnswerSecurityQuestion" /\ ret.at # "guard") => flow[1].sq = <<>>

\* C3: whenever AnswerSecurityQuestion is an available step, the cached
\* security question is present.
C3_QuestionPresentWhenOffered ==
    (flow # <<>> /\ HasStep(flow[1], ResetPasswordStepAnswerSecurityQuestion))
        => flow[1].sq # <<>>

\* C4: whenever AnswerSecurityQuestion is not an available step,
\* SecurityQuestion() returns nil.
C4_NoQuestionWhenNotOffered ==
    (flow # <<>> /\ ~HasStep(flow[1], ResetPasswordStepAnswerSecurityQuestion))
        => flow[1].sq = <<>>

\* C5: when setupNextSteps is given a document with a success marker and the
\* token exchange succeeds, exactly one token exchange is issued, carrying the
\* flow's code verifier and the client secret of the configured (process-wide)
\* client; the token is stored on the flow and setupNextSteps leaves the step
\* set exactly <<Success>>, whatever else the document holds.
C5_SuccessDocument ==
    (setup # <<>> /\ setup[1].doc.SuccessResponse /\ setup[1].err = "nil")
        => /\ Cardinality(TokenCalls) = 1
           /\ \A k \in TokenCalls :
                  /\ calls[k].verifier = flow[1].idxContext.codeVerifier
                  /\ calls[k].secret = ClientSecret(idx)
           /\ setup[1].token = <<TokenValue>>
           /\ flow[1].token = <<TokenValue>>
           /\ setup[1].steps = <<ResetPasswordStepSuccess>>

\* a success document that also holds a cancel marker and every probed option
\* was processed by a transition, after a second client had been constructed
C5_Witness ==
    /\ setup # <<>>
    /\ setup[1].doc.SuccessResponse
    /\ setup[1].doc.CancelResponse
    /\ setup[1].doc.Remediation = AllProbed
    /\ setup[1].err = "nil"
    /\ ret.op \in TransitionOps
    /\ idx # starter

\* C6: if Success is an available step, it is the only one.
C6_SuccessIsAlone ==
    (flow # <<>> /\ HasStep(flow[1], ResetPasswordStepSuccess))
        => flow[1].availableSteps = <<ResetPasswordStepSuccess>>

\* what the probes of setupNextSteps look for, read off the document
HasNested(resp, optionName, attr, want) ==
    \E o \in resp.Remediation :
        /\ o.Name = optionName
        /\ \E i \in DOMAIN o.FormValues :
               \E j \in DOMAIN o.FormValues[i].Form :
                   o.FormValues[i].Form[j][attr] = want

NoProbeMatches(resp) ==
    /\ ~resp.CancelResponse
    /\ ~HasNested(resp, "select-authenticator-authenticate", "Label", "Email")
    /\ ~\E o \in resp.Remediation : o.Name = "skip"
    /\ ~HasNested(resp, "challenge-authenticator", "Name", "questionKey")
    /\ ~HasNested(resp, "reset-authenticator", "Label", "New password")

\* C7: for a document without a success marker in which no probe matches,
\* setupNextSteps, and the operation that called it, return an error value,
\* with or without a message list in the document.
C7_DeadEndIsAnError ==
    (setup # <<>> /\ ~setup[1].doc.SuccessResponse /\ NoProbeMatches(setup[1].doc))
        => (setup[1].err = "error" /\ ret.err = "error")

\* C8: when VerifyEmail passed its guard and its introspect, recover and
\* authenticator submissions all succeeded (and so did the token exchange, if
\* one was made), it returns the flow and the steps contain EmailConfirmation.
C8_VerifyEmailAddsConfirmation ==
    (ret.op = "VerifyEmail" /\ setup # <<>> /\ ret.at # "exchange")
        => (ret.err = "nil" /\ ret.some
            /\ HasStep(flow[1], ResetPasswordStepEmailConfirmation))

\* C9: when every call of Authenticate up to the passcode submission has
\* succeeded: on a document with a success marker (and a token exchange that
\* succeeds) it makes one token exchange with the session's verifier and the
\* client's secret and returns status SUCCESS with the token; on any other
\* document it returns a response whose status is UNHANDLED_RESPONSE, no
\* error, and makes no token exchange.
C9_AuthenticateStatus ==
    (ret.op = "Authenticate" /\ setup # <<>>)
        => IF setup[1].doc.SuccessResponse
           THEN ret.at # "exchange"
                => /\ ret.err = "nil" /\ ret.auth # <<>>
                   /\ ret.auth[1].authenticationStatus = AuthStatusSuccess
                   /\ ret.auth[1].token = <<TokenValue>>
                   /\ Cardinality(TokenCalls) = 1
                   /\ \A k \in TokenCalls :
                          /\ CodeChallenge(calls[k].verifier) = calls[1].challenge
                          /\ calls[k].secret = ClientSecret(calls[1].client)
           ELSE /\ ret.err = "nil" /\ ret.auth # <<>>
                /\ ret.auth[1].authenticationStatus = AuthStatusUnhandled
                /\ TokenCalls = {}

\* C10: Authenticate and ChangePassword never return (nil, nil).
C10_ValueOrError ==
    (ret.op \in {"Authenticate", "ChangePassword"})
        => ~(ret.auth = <<>> /\ ret.err = "nil")

\* the operations on a flow: the one that starts it and its transitions
FlowOps == TransitionOps \cup {"InitPasswordReset"}

\* C11: EmailConfirmation is an available step only if the most recent
\* successful operation on the flow was VerifyEmail: a step that leaves it
\* in the set is either a successful VerifyEmail or not a successful
\* operation on a flow that had it already; and ConfirmEmail called without
\* it is rejected by its guard and makes no network call.
C11_ConfirmationOnlyAfterVerifyEmail ==
    [][ /\ (flow' # <<>> /\ HasStep(flow'[1], ResetPasswordStepEmailConfirmation))
            => \/ (ret'.op = "VerifyEmail" /\ ret'.err = "nil")
               \/ /\ flow # <<>>
                  /\ HasStep(flow[1], ResetPasswordStepEmailConfirmation)
                  /\ ~(ret'.op \in FlowOps /\ ret'.err = "nil")
        /\ (/\ flow # <<>>
            /\ ret'.op = "ConfirmEmail"
            /\ ~HasStep(flow[1], ResetPasswordStepEmailConfirmation))
            => (ret'.err = "error" /\ ret'.at = "guard" /\ calls' = <<>>) ]_vars

\* EmailConfirmation is still offered after another transition was let in,
\* issued calls and failed
C11_Witness ==
    /\ flow # <<>>
    /\ HasStep(flow[1], ResetPasswordStepEmailConfirmation)
    /\ ret.op \in TransitionOps \ {"VerifyEmail"}
    /\ ret.err = "error"
    /\ calls # <<>>

\* C12: setupNextSteps applied a second time to the same document, with the
\* same outcome of the token exchange, leaves the step set and the cached
\* security question as the first application left them.
C12_SetupNextStepsIdempotent ==
    [][ (ret'.op = "setupNextSteps again" /\ setup'[1].err = setup[1].err)
            => /\ flow'[1].availableSteps = flow[1].availableSteps
               /\ flow'[1].sq = flow[1].sq ]_vars

\* a document with two matching probes and a question was applied twice
C12_Witness ==
    /\ ret.op = "setupNextSteps again"
    /\ setup[1].err = "nil"
    /\ ~setup[1].doc.SuccessResponse
    /\ Len(flow[1].availableSteps) >= 2
    /\ flow[1].sq # <<>>

\* C13: the flow holds a token exactly when Success is an available step.
C13_TokenIffSuccess ==
    flow # <<>>
        => (flow[1].token # <<>> <=> HasStep(flow[1], ResetPasswordStepSuccess))

StepSet(r) == { r.availableSteps[i] : i \in DOMAIN r.availableSteps }

\* the steps whose probe matches the document, each read off on its own
ProbeSteps(resp) ==
    { s \in ResetPasswordStepEmailVerification..ResetPasswordStepSuccess :
        \/ s = ResetPasswordStepCancel /\ resp.CancelResponse
        \/ /\ s = ResetPasswordStepEmailVerification
           /\ HasNested(resp, "select-authenticator-authenticate", "Label", "Email")
        \/ s = ResetPasswordStepSkip /\ \E o \in resp.Remediation : o.Name = "skip"
        \/ /\ s = ResetPasswordStepAnswerSecurityQuestion
           /\ HasNested(resp, "challenge-authenticator", "Name", "questionKey")
        \/ /\ s = ResetPasswordStepNewPassword
           /\ HasNested(resp, "reset-authenticator", "Label", "New password") }

\* C14: after setupNextSteps succeeded on a document without a success
\* marker, the step set is exactly the set of steps whose probe matches the
\* document, each once, whatever the step set was before.
C14_StepsAreTheMatchingProbes ==
    (ret.op \in {"setupNextSteps", "setupNextSteps again"}
     /\ ~setup[1].doc.SuccessResponse /\ setup[1].err = "nil")
        => /\ StepSet(flow[1]) = ProbeSteps(setup[1].doc)
           /\ Len(flow[1].availableSteps) = Cardinality(ProbeSteps(setup[1].doc))

\* all five probes matched at once
C14_Witness ==
    /\ ret.op = "setupNextSteps"
    /\ setup[1].err = "nil"
    /\ StepSet(flow[1]) =
           { ResetPasswordStepCancel, ResetPasswordStepEmailVerification,
             ResetPasswordStepSkip, ResetPasswordStepAnswerSecurityQuestion,
             ResetPasswordStepNewPassword }

\* C15: a transition that returns an error leaves the step set and the
\* token as they were.
C15_ErrorLeavesStepsAndToken ==
    [][ (flow # <<>> /\ ret'.op \in TransitionOps /\ ret'.err = "error")
            => /\ flow'[1].availableSteps = flow[1].availableSteps
               /\ flow'[1].token = flow[1].token ]_vars

\* a transition ended in the dead-end error of setupNextSteps
C15_Witness ==
    /\ flow # <<>>
    /\ ret.op \in TransitionOps
    /\ ret.err = "error"
    /\ ret.at = "deadend"
    /\ flow[1].availableSteps # <<>>

\* C16: Interact is called once for a flow, inside InitPasswordReset; the
\* flow's session context never changes afterwards; every later introspect
\* call carries that context's interaction handle and no transition issues
\* an interact call of its own; every token exchange carries the verifier
\* whose challenge that one interact call sent.
C16_OneInteractOneContext ==
    [][ /\ (ret'.op = "InitPasswordReset" /\ ret'.err = "nil")
            => /\ Cardinality({ k \in DOMAIN calls' : calls'[k].kind = "interact" }) = 1
               /\ calls'[1].kind = "interact"
               /\ calls'[1].challenge = CodeChallenge(flow'[1].idxContext.codeVerifier)
               /\ \A k \in DOMAIN calls' :
                      /\ calls'[k].kind = "introspect"
                             => calls'[k].handle = flow'[1].idxContext.interactionHandle
                      /\ calls'[k].kind = "token"
                             => CodeChallenge(calls'[k].verifier) = calls'[1].challenge
        /\ (flow # <<>> /\ ret'.op \in TransitionOps)
            => /\ flow'[1].idxContext = flow[1].idxContext
               /\ \A k \in DOMAIN calls' :
                      /\ calls'[k].kind # "interact"
                      /\ calls'[k].kind = "introspect"
                             => calls'[k].handle = flow[1].idxContext.interactionHandle
                      /\ calls'[k].kind = "token"
                             => calls'[k].verifier = flow[1].idxContext.codeVerifier ]_vars

\* a transition of the flow of the second session introspected and
\* exchanged the code for a token
C16_Witness ==
    /\ flow # <<>>
    /\ flow[1].idxContext = Context(2)
    /\ ret.op \in TransitionOps
    /\ \E k \in DOMAIN calls : calls[k].kind = "introspect"
    /\ TokenCalls # {}

\* C17: the transitions' introspect calls are made with the process-wide
\* client and their token exchange with its secret, whichever client started
\* the flow; a successful NewClient makes its client the process-wide one
\* and a failed NewClient leaves the pointer alone.
C17_ProcessWideClient ==
    [][ /\ (flow # <<>> /\ ret'.op \in TransitionOps)
            => \A k \in DOMAIN calls' :
                   /\ calls'[k].kind = "introspect" => calls'[k].client = idx
                   /\ calls'[k].kind = "token" => calls'[k].secret = ClientSecret(idx)
        /\ (ret'.op = "NewClient" /\ ret'.err = "error") => idx' = idx
        /\ (ret'.op = "NewClient" /\ ret'.err = "nil") => idx' = clients' ]_vars

\* a flow started by one client introspected and exchanged its code with
\* another client's transport and secret
C17_Witness ==
    /\ flow # <<>>
    /\ ret.op \in TransitionOps
    /\ idx # starter
    /\ \E k \in DOMAIN calls : calls[k].kind = "introspect" /\ calls[k].client # starter
    /\ \E k \in TokenCalls : calls[k].secret # ClientSecret(starter)

\* the calls of InitPasswordReset in the order of its code
InitOrder == <<"interact", "introspect", "identify", "recover", "token">>

\* the number of calls issued when InitPasswordReset returns at a given place
IssuedAt(at) ==
    CASE at = "interact" -> {0, 1}
      [] at \in {"introspect", "option"} -> {2}
      [] at \in {"submit", "enrollment"} -> {3}
      [] at = "recover" -> {4}
      [] OTHER -> {4, 5}

\* C18: InitPasswordReset issues Interact, Introspect, the identify
\* submission and the recover submission in this order and then recomputes
\* the steps; when a call fails, "identify" is missing or the enrollment is
\* missing, it returns an error and no flow, and issues no later call.
C18_InitOrder ==
    ret.op = "InitPasswordReset"
        => /\ \A k \in DOMAIN calls : k <= Len(InitOrder) /\ calls[k].kind = InitOrder[k]
           /\ Len(calls) \in IssuedAt(ret.at)
           /\ Len(calls) = 5 => setup # <<>> /\ setup[1].doc.SuccessResponse
           /\ ret.at \in {"interact", "introspect", "option", "submit",
                          "enrollment", "recover"}
                  => /\ ret.err = "error" /\ ~ret.some
                     /\ flow = <<>> /\ setup = <<>>
           /\ setup # <<>> => Len(calls) >= 4

\* the identify response had no enrollment: three calls, no recover
C18_Witness ==
    /\ ret.op = "InitPasswordReset"
    /\ ret.at = "enrollment"
    /\ Len(calls) = 3
    /\ flow = <<>>

\* C19: in every state of a flow whose step set is not <<Success>>, some
\* transition passes its guard.
C19_SomeTransitionCallable ==
    (flow # <<>> /\ flow[1].availableSteps # <<ResetPasswordStepSuccess>>)
        => \E op \in TransitionOps : HasStep(flow[1], RequiredStep(op))

==========================================================================
